---- MODULE Spec2Model ----
(***************************************************************************)
(* Model of bot.py: the podcast poll / summarise / notify job.             *)
(*                                                                         *)
(* Python str values are sequences of one-character strings.  An optional  *)
(* value (a str or None) is a record [tag, val].  The marker file          *)
(* last_episode.txt is NoFile or the sequence of characters it holds.      *)
(*                                                                         *)
(* Spec       one run of main() at a time, runs one after another.         *)
(* SpecOverlap  two invocations of the script that may overlap: the        *)
(*            scheduler starts each process once, whenever it likes.       *)
(* SpecSplit  split_message on its own, one loop iteration per step.       *)
(* SpecSplitFair  SpecSplit where the loop keeps being executed.           *)
(* SpecClean  clean_summary on its own, applied twice.                     *)
(* SpecResolve  the scan of extract_youtube_video_id_from_url on its own,  *)
(*            one JSON-LD tag per step.                                    *)
(***************************************************************************)
EXTENDS Integers, Sequences, FiniteSets, TLC

VARIABLES
    feed,            \* entries feedparser.parse returns, newest first
    markerFile,      \* content of LAST_EPISODE_FILE, or NoFile
    pc,              \* pc[p]: position of process p inside main()
    run,             \* run[p]: number of the run process p executes
    episode,         \* main's local: episode
    latest_id,       \* main's local: latest_id
    last_episode_id, \* main's local: last_episode_id
    youtube_video_id,\* main's local: youtube_video_id
    cleaned_summary, \* main's local: cleaned_summary
    message_parts,   \* post_to_telegram's local: message_parts
    part_index,      \* post_to_telegram's loop: parts already iterated
    runs,            \* number of runs started so far
    hist,            \* hist[n]: what run n observed and did (kept for the
                     \* current run and the one before it)
    message,         \* split_message's local: message
    parts,           \* split_message's local: parts
    max_length,      \* split_message's parameter
    split_input,     \* the string split_message was called with
    split_pc,        \* position inside split_message
    clean_input,     \* the string clean_summary is first called with
    clean_once,      \* clean_summary(clean_input)
    clean_twice,     \* clean_summary of that result
    clean_pc,        \* how often clean_summary has been applied
    resolve_page,    \* the JSON-LD tags of the page being resolved
    page_tags,       \* the tags the loop of lines 56-67 has not yet seen
    found_url,       \* extract_youtube_video_id_from_url's local youtube_url
    video_id_result, \* what extract_youtube_video_id_from_url returns
    resolve_pc       \* position inside extract_youtube_video_id_from_url

vars == <<feed, markerFile, pc, run, episode, latest_id, last_episode_id,
          youtube_video_id, cleaned_summary, message_parts, part_index,
          runs, hist, message, parts, max_length, split_input, split_pc,
          clean_input, clean_once, clean_twice, clean_pc,
          resolve_page, page_tags, found_url, video_id_result, resolve_pc>>

mainVars == <<feed, markerFile, pc, run, episode, latest_id, last_episode_id,
              youtube_video_id, cleaned_summary, message_parts, part_index,
              runs, hist>>

splitVars == <<message, parts, max_length, split_input, split_pc>>

cleanVars == <<clean_input, clean_once, clean_twice, clean_pc>>

resolveVars == <<resolve_page, page_tags, found_url, video_id_result, resolve_pc>>

(***************************************************************************)
(* Bounds of the model.                                                    *)
(***************************************************************************)
MaxRuns == 2          \* runs of main() explored one after another
MaxSplitLen == 5      \* length of the strings given to split_message
MaxMaxLength == 3     \* largest max_length given to split_message
MaxCleanPieces == 7   \* pieces the strings given to clean_summary are made of
MaxBlocks == 2        \* JSON-LD tags on a page
MaxItems == 2         \* items in one JSON-LD tag
ScaledMaxLength == 16 \* post_to_telegram's max_length (4096), scaled to the
                      \* short messages of the model

Procs == {1, 2}
SeqProc == CHOOSE p \in Procs : \A q \in Procs : p <= q

(***************************************************************************)
(* Python values.                                                          *)
(***************************************************************************)
None == [tag |-> "None", val |-> <<>>]
Str(s) == [tag |-> "str", val |-> s]
NoFile == [tag |-> "NoFile", val |-> <<>>]
File(s) == [tag |-> "file", val |-> s]

NL == "\n"
Whitespace == {" ", NL}
Chars == {"a", "b", " ", NL}

RECURSIVE LStrip(_)
LStrip(s) ==
    IF s # <<>> /\ Head(s) \in Whitespace THEN LStrip(Tail(s)) ELSE s

RECURSIVE RStrip(_)
RStrip(s) ==
    IF s # <<>> /\ s[Len(s)] \in Whitespace
    THEN RStrip(SubSeq(s, 1, Len(s) - 1)) ELSE s

\* str.strip()
Strip(s) == RStrip(LStrip(s))

\* s[:k] and s[k:] for 0 <= k
SliceTo(s, k) == SubSeq(s, 1, IF k < Len(s) THEN k ELSE Len(s))
SliceFrom(s, k) == SubSeq(s, k + 1, Len(s))

\* s.rfind(c): the highest 0-based index of c in s, -1 if there is none
RFind(s, c) ==
    LET hits == {i \in 1..Len(s) : s[i] = c}
    IN  IF hits = {} THEN -1
        ELSE (CHOOSE i \in hits : \A j \in hits : j <= i) - 1

RECURSIVE Concat(_)
Concat(ss) == IF ss = <<>> THEN <<>> ELSE Head(ss) \o Concat(Tail(ss))

\* the sequences over S of length at most n
RECURSIVE SeqsUpTo(_, _)
SeqsUpTo(S, n) ==
    IF n = 0 THEN {<<>>}
    ELSE LET shorter == SeqsUpTo(S, n - 1)
         IN  shorter \cup {Append(s, c) : s \in {t \in shorter : Len(t) = n - 1}, c \in S}

(***************************************************************************)
(* split_message (bot.py 156-170).                                         *)
(***************************************************************************)
\* line 161: the loop condition
SplitLoop(msg, maxlen) == Len(msg) > maxlen

\* SplitIndex cutting one character late when there is no newline
SplitIndexLate(msg, maxlen) ==
    LET split_index == RFind(SliceTo(msg, maxlen), NL)
    IN  IF split_index = -1 THEN maxlen + 1 ELSE split_index

\* SplitIndex taking the first newline of the window instead of the last
SplitIndexFirst(msg, maxlen) ==
    LET window == SliceTo(msg, maxlen)
        hits == {i \in 1..Len(window) : window[i] = NL}
    IN  IF hits = {} THEN maxlen
        ELSE (CHOOSE i \in hits : \A j \in hits : i <= j) - 1

\* lines 162-164: where the remaining message is cut
SplitIndex(msg, maxlen) ==
    LET split_index == RFind(SliceTo(msg, maxlen), NL)
    IN  IF split_index = -1 THEN maxlen ELSE split_index

\* SplitPrefix losing the last character before the cut
SplitPrefixShort(msg, split_index) ==
    Strip(SliceTo(msg, IF split_index > 0 THEN split_index - 1 ELSE 0))

\* line 166: the chunk appended to parts
SplitPrefix(msg, split_index) == Strip(SliceTo(msg, split_index))

\* SplitRest continuing one character after the cut
SplitRestSkip(msg, split_index) == Strip(SliceFrom(msg, split_index + 1))

\* SplitRest without the trim
SplitRestNoStrip(msg, split_index) == SliceFrom(msg, split_index)

\* line 167: the message the loop continues with
SplitRest(msg, split_index) == Strip(SliceFrom(msg, split_index))

RECURSIVE SplitFrom(_, _, _)
SplitFrom(msg, ps, maxlen) ==
    IF SplitLoop(msg, maxlen)
    THEN LET split_index == SplitIndex(msg, maxlen)
         IN  SplitFrom(SplitRest(msg, split_index),
                       Append(ps, SplitPrefix(msg, split_index)), maxlen)
    ELSE Append(ps, msg)

split_message(msg, maxlen) == SplitFrom(msg, <<>>, maxlen)

\* split_message is called with an input string and a max_length
SplitInputs == SeqsUpTo(Chars, MaxSplitLen)

SplitIdle ==
    /\ message = <<>>
    /\ parts = <<>>
    /\ max_length = 0
    /\ split_input = <<>>
    /\ split_pc = "off"

\* one iteration of the while loop
SplitStep ==
    /\ split_pc = "loop"
    /\ SplitLoop(message, max_length)
    /\ LET split_index == SplitIndex(message, max_length)
       IN  /\ parts' = Append(parts, SplitPrefix(message, split_index))
           /\ message' = SplitRest(message, split_index)
    /\ UNCHANGED <<max_length, split_input, split_pc>>
    /\ UNCHANGED <<mainVars, cleanVars, resolveVars>>

\* lines 169-170: the loop has ended, the last chunk is added
SplitReturn ==
    /\ split_pc = "loop"
    /\ ~SplitLoop(message, max_length)
    /\ parts' = Append(parts, message)
    /\ split_pc' = "done"
    /\ UNCHANGED <<message, max_length, split_input>>
    /\ UNCHANGED <<mainVars, cleanVars, resolveVars>>

(***************************************************************************)
(* clean_summary (bot.py 172-180) and summarize_transcript (77-89).        *)
(***************************************************************************)
\* the backtick character (written ^ here) and the fence of three of them
Backtick == "^"
Fence == <<Backtick, Backtick, Backtick>>
FenceMarkdown == Fence \o <<"m", "a", "r", "k", "d", "o", "w", "n">>

StartsWith(s, pat) == Len(s) >= Len(pat) /\ SubSeq(s, 1, Len(pat)) = pat

\* re.sub(pat, "", s) for a literal, non-empty pat: leftmost matches, not
\* overlapping, are removed
RECURSIVE ReSubEmpty(_, _)
ReSubEmpty(pat, s) ==
    IF s = <<>> THEN <<>>
    ELSE IF StartsWith(s, pat) THEN ReSubEmpty(pat, SliceFrom(s, Len(pat)))
    ELSE <<Head(s)>> \o ReSubEmpty(pat, Tail(s))

\* clean_summary without the second substitution
clean_summary_markdown_only(summary) ==
    Strip(ReSubEmpty(FenceMarkdown, summary))

clean_summary(summary) ==
    Strip(ReSubEmpty(Fence, ReSubEmpty(FenceMarkdown, summary)))

\* line 88: response.text.strip()
summarize_transcript(response_text) == Strip(response_text)

\* strings clean_summary is called with: up to MaxCleanPieces pieces, each a
\* backtick, the word markdown, a letter or a blank
CleanPieces ==
    { <<Backtick>>, <<"m", "a", "r", "k", "d", "o", "w", "n">>, <<"a">>, <<" ">> }
CleanInputs == {Concat(ps) : ps \in SeqsUpTo(CleanPieces, MaxCleanPieces)}

CleanIdle ==
    /\ clean_input = <<>>
    /\ clean_once = <<>>
    /\ clean_twice = <<>>
    /\ clean_pc = "off"

\* line 216: clean_summary is applied to the summary
CleanFirst ==
    /\ clean_pc = "start"
    /\ clean_once' = clean_summary(clean_input)
    /\ clean_pc' = "once"
    /\ UNCHANGED <<clean_input, clean_twice>>
    /\ UNCHANGED <<mainVars, splitVars, resolveVars>>

\* clean_summary is applied to its own result
CleanSecond ==
    /\ clean_pc = "once"
    /\ clean_twice' = clean_summary(clean_once)
    /\ clean_pc' = "twice"
    /\ UNCHANGED <<clean_input, clean_once>>
    /\ UNCHANGED <<mainVars, splitVars, resolveVars>>

\* texts the generation service answers with
Responses ==
    { <<"a", NL, "b">>,
      Fence \o <<NL, "a", "b", NL>> \o Fence,
      FenceMarkdown \o <<NL, "a", NL, NL, "b", " ", "a", "b", "a", NL, "b">> }

(***************************************************************************)
(* extract_youtube_video_id_from_url (bot.py 43-74).                       *)
(* A page is the list of its JSON-LD script tags; a tag either does not    *)
(* parse or holds a list of items; an item has "@type" and may have        *)
(* "embedUrl".  A URL is a sequence of tokens; "/embed/" is one token and  *)
(* a video id is VideoIdLen id characters.                                 *)
(***************************************************************************)
VideoIdLen == 11
IdChars == {"v", "w"}
Absent == [tag |-> "absent", val |-> <<>>]
Unparseable == [tag |-> "unparseable", items |-> <<>>]
Parsed(items) == [tag |-> "json", items |-> items]

\* line 71: re.search(r"/embed/([A-Za-z0-9_-]{11})", url), group 1 or None
EmbedMatch(url) ==
    LET hits == {i \in 1..Len(url) :
                    /\ url[i] = "/embed/"
                    /\ i + VideoIdLen <= Len(url)
                    /\ \A k \in 1..VideoIdLen : url[i + k] \in IdChars}
    IN  IF hits = {} THEN None
        ELSE LET i == CHOOSE h \in hits : \A j \in hits : h <= j
             IN  Str(SubSeq(url, i + 1, i + VideoIdLen))

\* item.get raises on an item that is not a JSON object
Raised == [tag |-> "raise", val |-> <<>>]

\* ScanItems not looking at "@type"
RECURSIVE ScanItemsAnyType(_)
ScanItemsAnyType(items) ==
    IF items = <<>> THEN None
    ELSE IF Head(items).type = "NotDict" THEN Raised
    ELSE IF Head(items).embedUrl.tag = "str"
         THEN Head(items).embedUrl
         ELSE ScanItemsAnyType(Tail(items))

\* lines 60-63: the first item typed VideoObject that has an embedUrl; an
\* item that is not an object met before it raises (caught at line 66)
RECURSIVE ScanItems(_)
ScanItems(items) ==
    IF items = <<>> THEN None
    ELSE IF Head(items).type = "NotDict" THEN Raised
    ELSE IF Head(items).type = "VideoObject" /\ Head(items).embedUrl.tag = "str"
         THEN Head(items).embedUrl
         ELSE ScanItems(Tail(items))

\* python truthiness of youtube_url
Truthy(v) == v.tag = "str" /\ v.val # <<>>

\* lines 56-67: the loop over the tags; youtube_url is carried along
RECURSIVE ScanTags(_, _)
ScanTags(tags, youtube_url) ==
    IF tags = <<>> THEN youtube_url
    ELSE IF Head(tags).tag = "unparseable" THEN ScanTags(Tail(tags), youtube_url)
    ELSE LET found == ScanItems(Head(tags).items)
             url == IF found.tag = "str" THEN found ELSE youtube_url
         IN  IF Truthy(url) THEN url ELSE ScanTags(Tail(tags), url)

\* lines 54-74, after the page has been fetched
ExtractVideoId(tags) ==
    LET youtube_url == ScanTags(tags, None)
    IN  IF Truthy(youtube_url) THEN EmbedMatch(youtube_url.val) ELSE None

IdV == [i \in 1..VideoIdLen |-> "v"]
IdW == [i \in 1..VideoIdLen |-> "w"]
UrlV == <<"https://x", "/embed/">> \o IdV \o <<"?x=1">>
UrlW == <<"https://x", "/embed/">> \o IdW
UrlBad == <<"https://x", "/watch/">> \o IdV
ItemV == [type |-> "VideoObject", embedUrl |-> Str(UrlV)]
ItemW == [type |-> "VideoObject", embedUrl |-> Str(UrlW)]
ItemBad == [type |-> "VideoObject", embedUrl |-> Str(UrlBad)]
ItemEmpty == [type |-> "VideoObject", embedUrl |-> Str(<<>>)]
ItemNoUrl == [type |-> "VideoObject", embedUrl |-> Absent]
ItemOther == [type |-> "WebPage", embedUrl |-> Str(UrlW)]

ItemNotDict == [type |-> "NotDict", embedUrl |-> Absent]

\* pages given to the scan on its own: up to MaxBlocks tags of up to
\* MaxItems items
ResolveItems ==
    {ItemV, ItemW, ItemBad, ItemEmpty, ItemNoUrl, ItemOther, ItemNotDict}
ResolveBlocks ==
    {Unparseable} \cup {Parsed(items) : items \in SeqsUpTo(ResolveItems, MaxItems)}
ResolvePages == SeqsUpTo(ResolveBlocks, MaxBlocks)

ResolveIdle ==
    /\ resolve_page = <<>>
    /\ page_tags = <<>>
    /\ found_url = None
    /\ video_id_result = None
    /\ resolve_pc = "off"

\* lines 56-67: one iteration of the loop over the tags
ResolveScanTag ==
    /\ resolve_pc = "scan"
    /\ page_tags # <<>>
    /\ LET tag == Head(page_tags)
           found == IF tag.tag = "unparseable" THEN Raised
                    ELSE ScanItems(tag.items)
           youtube_url == IF found.tag = "str" THEN found ELSE found_url
       IN  /\ found_url' = youtube_url
           /\ resolve_pc' = IF found.tag # "raise" /\ Truthy(youtube_url)
                            THEN "break" ELSE "scan"
    /\ page_tags' = Tail(page_tags)
    /\ UNCHANGED <<resolve_page, video_id_result>>
    /\ UNCHANGED <<mainVars, splitVars, cleanVars>>

\* lines 69-74: the loop is over, the id is taken from youtube_url
ResolveReturn ==
    /\ \/ resolve_pc = "break"
       \/ resolve_pc = "scan" /\ page_tags = <<>>
    /\ video_id_result' = IF Truthy(found_url) THEN EmbedMatch(found_url.val)
                          ELSE None
    /\ resolve_pc' = "done"
    /\ UNCHANGED <<resolve_page, page_tags, found_url>>
    /\ UNCHANGED <<mainVars, splitVars, cleanVars>>

\* pages the episode link answers with
Pages ==
    { <<>>,
      <<Parsed(<<ItemV>>)>>,
      <<Parsed(<<ItemOther, ItemW>>), Parsed(<<ItemV>>)>>,
      <<Unparseable, Parsed(<<ItemNoUrl, ItemV>>)>>,
      <<Parsed(<<ItemOther>>), Parsed(<<ItemNoUrl>>)>>,
      <<Parsed(<<ItemEmpty>>), Parsed(<<ItemW>>)>>,
      <<Parsed(<<ItemBad>>), Parsed(<<ItemV>>)>>,
      <<Unparseable>> }

(***************************************************************************)
(* The feed and the marker file (bot.py 91-120).                           *)
(***************************************************************************)
EntryA == [yt_videoid |-> Str(<<"a">>), id |-> Str(<<"b">>), title |-> <<"t">>]
EntryB == [yt_videoid |-> Absent, id |-> Str(<<"b">>), title |-> <<"t">>]
EntryC == [yt_videoid |-> Absent, id |-> Str(<<"a">>), title |-> <<"u">>]
Entries == {EntryA, EntryB, EntryC}
\* what the feed holds at a poll: no entry, one entry, or two
Feeds ==
    { <<>>, <<EntryA>>, <<EntryB>>, <<EntryC>>,
      <<EntryA, EntryC>>, <<EntryC, EntryA>> }

\* what the marker file holds before the first run
MarkerInits == {NoFile, File(<<"a">>), File(<<"b", NL>>)}

\* DictGet always answering with the default
DictGetDefault(field, default) == default

\* dict.get(key, default) on a field that may be absent
DictGet(field, default) == IF field.tag = "absent" THEN default ELSE field

\* lines 95-102; the episode is <<>> for None, <<entry>> otherwise
check_new_episode(f) ==
    IF f = <<>>
    THEN [episode |-> <<>>, latest_id |-> None]
    ELSE LET latest_entry == f[1]
         IN  [episode |-> <<latest_entry>>,
              latest_id |-> DictGet(latest_entry.yt_videoid,
                                    DictGet(latest_entry.id, None))]

\* lines 109-112
load_last_episode_id(file) ==
    IF file.tag = "file" THEN Str(Strip(file.val)) ELSE None

\* lines 119-120.  open(.., "w") truncates the file before f.write runs;
\* f.write(None) raises TypeError.  io is what the file system does.
save_last_episode_id(file, episode_id, io) ==
    IF io = "open_fails" THEN [file |-> file, raised |-> TRUE]
    ELSE IF episode_id.tag # "str" THEN [file |-> File(<<>>), raised |-> TRUE]
    ELSE IF io = "write_fails" THEN [file |-> File(<<>>), raised |-> TRUE]
    ELSE [file |-> File(episode_id.val), raised |-> FALSE]

(***************************************************************************)
(* main (bot.py 183-218) and post_to_telegram (134-154).                   *)
(***************************************************************************)
\* IsNewEpisode taking a missing marker for "nothing new"
IsNewEpisodeNeedsMarker(latest, last) == latest # last /\ last.tag = "str"

\* IsNewEpisode taking every poll for a new episode
IsNewEpisodeAlways(latest, last) == TRUE

\* line 189, negated: the else branch is the new-episode branch
IsNewEpisode(latest, last) == latest # last

\* NextAfterCompare never saving the marker
NextAfterCompareNoSave(is_new) == "page"

\* lines 189-196: the return of line 191 is commented out, so both
\* branches go on to line 196
NextAfterCompare(is_new) == IF is_new THEN "save" ELSE "page"

\* NextAfterSave swallowing the exception
NextAfterSaveIgnore(raised) == "page"

\* line 194: an exception of save_last_episode_id leaves main
NextAfterSave(raised) == IF raised THEN "error" ELSE "page"

\* NextAfterResolve going straight to the summary
NextAfterResolveSkip(video_id) ==
    IF video_id.tag = "None" THEN "error" ELSE "summarize"

\* NextAfterResolve without the check of line 202
NextAfterResolveUnchecked(video_id) == "transcript"

\* lines 200-203
NextAfterResolve(video_id) ==
    IF video_id.tag = "None" THEN "error" ELSE "transcript"

\* lines 207-211
NextAfterTranscript(ok) == IF ok THEN "summarize" ELSE "error"

\* lines 213-218
NextAfterSummarize(ok) == IF ok THEN "post" ELSE "error"

\* NextAfterSend going on with the loop after a failed send
NextAfterSendIgnore(ok) == "send"

\* line 153: an exception of send_message leaves the loop and main
NextAfterSend(ok) == IF ok THEN "send" ELSE "error"

\* line 152: the part the for loop takes after i parts
NextPart(ps, i) == ps[i + 1]

\* lines 142-146; "*" stands for the bold heading "*New Huberman Lab
\* Episode:* ", "[" for the "[Watch here](...)" markup around the link and
\* "#" for "*Summary:*"
BuildMessage(summary, title, youtube_link) ==
    <<"*">> \o title \o <<NL, "[">> \o youtube_link \o <<NL, NL, "#", NL>> \o summary

\* line 206
YoutubeLink(video_id) == <<"watch?v=">> \o video_id

Final == {"idle", "done", "error"}
Downstream == {"resolve", "transcript", "summarize", "deliver"}

BlankRun ==
    [ marker0 |-> NoFile, entry |-> <<>>, latest |-> None,
      detected |-> "pending", stages |-> <<>>, sent |-> <<>>,
      writes |-> 0, result |-> "none", faults |-> {}, overlapped |-> FALSE ]

Finish(next) == IF next = "error" THEN "error" ELSE "running"

MainInit ==
    /\ feed \in Feeds
    /\ markerFile \in MarkerInits
    /\ pc = [p \in Procs |-> "idle"]
    /\ run = [p \in Procs |-> 0]
    /\ episode = [p \in Procs |-> <<>>]
    /\ latest_id = [p \in Procs |-> None]
    /\ last_episode_id = [p \in Procs |-> None]
    /\ youtube_video_id = [p \in Procs |-> None]
    /\ cleaned_summary = [p \in Procs |-> <<>>]
    /\ message_parts = [p \in Procs |-> <<>>]
    /\ part_index = [p \in Procs |-> 0]
    /\ runs = 0
    /\ hist = [n \in 1..MaxRuns |-> BlankRun]

MainIdle ==
    /\ feed = <<>>
    /\ markerFile = NoFile
    /\ pc = [p \in Procs |-> "idle"]
    /\ run = [p \in Procs |-> 0]
    /\ episode = [p \in Procs |-> <<>>]
    /\ latest_id = [p \in Procs |-> None]
    /\ last_episode_id = [p \in Procs |-> None]
    /\ youtube_video_id = [p \in Procs |-> None]
    /\ cleaned_summary = [p \in Procs |-> <<>>]
    /\ message_parts = [p \in Procs |-> <<>>]
    /\ part_index = [p \in Procs |-> 0]
    /\ runs = 0
    /\ hist = [n \in 1..MaxRuns |-> BlankRun]

\* the scheduler starts the script; the process starts with fresh locals
Start(p) ==
    /\ pc[p] \in Final
    /\ runs < MaxRuns
    /\ runs' = runs + 1
    /\ run' = [run EXCEPT ![p] = runs + 1]
    /\ pc' = [pc EXCEPT ![p] = "check"]
    /\ episode' = [episode EXCEPT ![p] = <<>>]
    /\ latest_id' = [latest_id EXCEPT ![p] = None]
    /\ last_episode_id' = [last_episode_id EXCEPT ![p] = None]
    /\ youtube_video_id' = [youtube_video_id EXCEPT ![p] = None]
    /\ cleaned_summary' = [cleaned_summary EXCEPT ![p] = <<>>]
    /\ message_parts' = [message_parts EXCEPT ![p] = <<>>]
    /\ part_index' = [part_index EXCEPT ![p] = 0]
    /\ LET active == {run[q] : q \in {r \in Procs : pc[r] \notin Final}}
       IN  hist' = [n \in 1..MaxRuns |->
                      IF n = runs + 1
                      THEN [BlankRun EXCEPT !.marker0 = markerFile,
                                            !.result = "running",
                                            !.overlapped = active # {}]
                      ELSE IF n \in active
                      THEN [hist[n] EXCEPT !.overlapped = TRUE]
                      ELSE IF n = runs THEN hist[n] ELSE BlankRun]
    /\ UNCHANGED <<feed, markerFile>>
    /\ UNCHANGED <<splitVars, cleanVars, resolveVars>>

\* one run at a time: the scheduler starts the script, as process
\* SeqProc, only when no run is active
StartRun(p) ==
    /\ p = SeqProc
    /\ \A q \in Procs : pc[q] \in Final
    /\ Start(p)

\* the publisher changes the feed between two runs
FeedChange ==
    /\ \A q \in Procs : pc[q] \in Final
    /\ runs < MaxRuns
    /\ feed' \in Feeds \ {feed}
    /\ UNCHANGED <<markerFile, pc, run, episode, latest_id, last_episode_id,
                   youtube_video_id, cleaned_summary, message_parts,
                   part_index, runs, hist>>
    /\ UNCHANGED <<splitVars, cleanVars, resolveVars>>

\* line 184
CheckNewEpisode(p) ==
    /\ pc[p] = "check"
    /\ LET r == check_new_episode(feed)
       IN  /\ episode' = [episode EXCEPT ![p] = r.episode]
           /\ latest_id' = [latest_id EXCEPT ![p] = r.latest_id]
           /\ hist' = [hist EXCEPT ![run[p]].entry = r.episode,
                                   ![run[p]].latest = r.latest_id]
    /\ pc' = [pc EXCEPT ![p] = "load"]
    /\ UNCHANGED <<feed, markerFile, run, last_episode_id, youtube_video_id,
                   cleaned_summary, message_parts, part_index, runs>>
    /\ UNCHANGED <<splitVars, cleanVars, resolveVars>>

\* lines 188-193: load the marker and compare
LoadAndCompare(p) ==
    /\ pc[p] = "load"
    /\ LET last == load_last_episode_id(markerFile)
           is_new == IsNewEpisode(latest_id[p], last)
       IN  /\ last_episode_id' = [last_episode_id EXCEPT ![p] = last]
           /\ pc' = [pc EXCEPT ![p] = NextAfterCompare(is_new)]
           /\ hist' = [hist EXCEPT ![run[p]].detected =
                                      IF is_new THEN "new" ELSE "same"]
    /\ UNCHANGED <<feed, markerFile, run, episode, latest_id, youtube_video_id,
                   cleaned_summary, message_parts, part_index, runs>>
    /\ UNCHANGED <<splitVars, cleanVars, resolveVars>>

\* line 194
SaveMarker(p) ==
    /\ pc[p] = "save"
    /\ \E io \in {"ok", "open_fails", "write_fails"} :
          LET r == save_last_episode_id(markerFile, latest_id[p], io)
              next == NextAfterSave(r.raised)
          IN  /\ markerFile' = r.file
              /\ pc' = [pc EXCEPT ![p] = next]
              /\ hist' = [hist EXCEPT
                    ![run[p]].stages = Append(@, "save"),
                    ![run[p]].writes = IF io = "open_fails" THEN @ ELSE @ + 1,
                    ![run[p]].faults = IF io = "ok" THEN @ ELSE @ \cup {"save"},
                    ![run[p]].result = Finish(next)]
    /\ UNCHANGED <<feed, run, episode, latest_id, last_episode_id,
                   youtube_video_id, cleaned_summary, message_parts,
                   part_index, runs>>
    /\ UNCHANGED <<splitVars, cleanVars, resolveVars>>

\* lines 196-197 with no episode: None has no attribute link
NoEpisodeLink(p) ==
    /\ pc[p] = "page"
    /\ episode[p] = <<>>
    /\ pc' = [pc EXCEPT ![p] = "error"]
    /\ hist' = [hist EXCEPT ![run[p]].result = "error"]
    /\ UNCHANGED <<feed, markerFile, run, episode, latest_id, last_episode_id,
                   youtube_video_id, cleaned_summary, message_parts,
                   part_index, runs>>
    /\ UNCHANGED <<splitVars, cleanVars, resolveVars>>

\* lines 196-203: fetch the episode page and look for the video id
ResolveVideo(p) ==
    /\ pc[p] = "page"
    /\ episode[p] # <<>>
    /\ \/ \E page \in Pages :
             LET video_id == ExtractVideoId(page)
                 next == NextAfterResolve(video_id)
             IN  /\ youtube_video_id' = [youtube_video_id EXCEPT ![p] = video_id]
                 /\ pc' = [pc EXCEPT ![p] = next]
                 /\ hist' = [hist EXCEPT
                       ![run[p]].stages = Append(@, "resolve"),
                       ![run[p]].faults = IF video_id.tag = "None"
                                          THEN @ \cup {"novideo"} ELSE @,
                       ![run[p]].result = Finish(next)]
       \/ \* line 49: raise_for_status
          /\ pc' = [pc EXCEPT ![p] = "error"]
          /\ hist' = [hist EXCEPT
                ![run[p]].stages = Append(@, "resolve"),
                ![run[p]].faults = @ \cup {"page"},
                ![run[p]].result = "error"]
          /\ UNCHANGED youtube_video_id
    /\ UNCHANGED <<feed, markerFile, run, episode, latest_id, last_episode_id,
                   cleaned_summary, message_parts, part_index, runs>>
    /\ UNCHANGED <<splitVars, cleanVars, resolveVars>>

\* lines 207-211
FetchTranscript(p) ==
    /\ pc[p] = "transcript"
    /\ \E ok \in BOOLEAN :
          LET next == NextAfterTranscript(ok)
          IN  /\ pc' = [pc EXCEPT ![p] = next]
              /\ hist' = [hist EXCEPT
                    ![run[p]].stages = Append(@, "transcript"),
                    ![run[p]].faults = IF ok THEN @ ELSE @ \cup {"transcript"},
                    ![run[p]].result = Finish(next)]
    /\ UNCHANGED <<feed, markerFile, run, episode, latest_id, last_episode_id,
                   youtube_video_id, cleaned_summary, message_parts,
                   part_index, runs>>
    /\ UNCHANGED <<splitVars, cleanVars, resolveVars>>

\* lines 213-216
Summarize(p) ==
    /\ pc[p] = "summarize"
    /\ \/ \E text \in Responses :
             /\ cleaned_summary' = [cleaned_summary EXCEPT ![p] =
                                       clean_summary(summarize_transcript(text))]
             /\ pc' = [pc EXCEPT ![p] = NextAfterSummarize(TRUE)]
             /\ hist' = [hist EXCEPT
                   ![run[p]].stages = Append(@, "summarize"),
                   ![run[p]].result = Finish(NextAfterSummarize(TRUE))]
       \/ \* reading system_prompt.txt or generate_content raises
          /\ pc' = [pc EXCEPT ![p] = NextAfterSummarize(FALSE)]
          /\ hist' = [hist EXCEPT
                ![run[p]].stages = Append(@, "summarize"),
                ![run[p]].faults = @ \cup {"summarize"},
                ![run[p]].result = Finish(NextAfterSummarize(FALSE))]
          /\ UNCHANGED cleaned_summary
    /\ UNCHANGED <<feed, markerFile, run, episode, latest_id, last_episode_id,
                   youtube_video_id, message_parts, part_index, runs>>
    /\ UNCHANGED <<splitVars, cleanVars, resolveVars>>

\* lines 218, 139-149: build the message and split it
PostToTelegram(p) ==
    /\ pc[p] = "post"
    /\ message_parts' = [message_parts EXCEPT ![p] =
          split_message(BuildMessage(cleaned_summary[p], episode[p][1].title,
                                     YoutubeLink(youtube_video_id[p].val)),
                        ScaledMaxLength)]
    /\ part_index' = [part_index EXCEPT ![p] = 0]
    /\ pc' = [pc EXCEPT ![p] = "send"]
    /\ hist' = [hist EXCEPT ![run[p]].stages = Append(@, "deliver")]
    /\ UNCHANGED <<feed, markerFile, run, episode, latest_id, last_episode_id,
                   youtube_video_id, cleaned_summary, runs>>
    /\ UNCHANGED <<splitVars, cleanVars, resolveVars>>

\* lines 152-154: one iteration of the send loop
SendPart(p) ==
    /\ pc[p] = "send"
    /\ part_index[p] < Len(message_parts[p])
    /\ \E ok \in BOOLEAN :
          IF ok
          THEN /\ part_index' = [part_index EXCEPT ![p] = @ + 1]
               /\ hist' = [hist EXCEPT ![run[p]].sent =
                              Append(@, NextPart(message_parts[p], part_index[p]))]
               /\ pc' = [pc EXCEPT ![p] = NextAfterSend(TRUE)]
          ELSE /\ pc' = [pc EXCEPT ![p] = NextAfterSend(FALSE)]
               /\ hist' = [hist EXCEPT ![run[p]].faults = @ \cup {"send"},
                                       ![run[p]].result = "error"]
               /\ UNCHANGED part_index
    /\ UNCHANGED <<feed, markerFile, run, episode, latest_id, last_episode_id,
                   youtube_video_id, cleaned_summary, message_parts, runs>>
    /\ UNCHANGED <<splitVars, cleanVars, resolveVars>>

\* the send loop has gone through every part: main returns
Return(p) ==
    /\ pc[p] = "send"
    /\ part_index[p] = Len(message_parts[p])
    /\ pc' = [pc EXCEPT ![p] = "done"]
    /\ hist' = [hist EXCEPT ![run[p]].result = "ok"]
    /\ UNCHANGED <<feed, markerFile, run, episode, latest_id, last_episode_id,
                   youtube_video_id, cleaned_summary, message_parts,
                   part_index, runs>>
    /\ UNCHANGED <<splitVars, cleanVars, resolveVars>>

Init == MainInit /\ SplitIdle /\ CleanIdle /\ ResolveIdle

Next ==
    \/ FeedChange
    \/ \E p \in Procs : StartRun(p)
    \/ \E p \in Procs : CheckNewEpisode(p)
    \/ \E p \in Procs : LoadAndCompare(p)
    \/ \E p \in Procs : SaveMarker(p)
    \/ \E p \in Procs : NoEpisodeLink(p)
    \/ \E p \in Procs : ResolveVideo(p)
    \/ \E p \in Procs : FetchTranscript(p)
    \/ \E p \in Procs : Summarize(p)
    \/ \E p \in Procs : PostToTelegram(p)
    \/ \E p \in Procs : SendPart(p)
    \/ \E p \in Procs : Return(p)

Spec == Init /\ [][Next]_vars

\* the scheduler starts the script as process p, whether or not the other
\* invocation has ended; each process is one invocation
OverlapStart(p) ==
    /\ pc[p] = "idle"
    /\ Start(p)

NextOverlap ==
    \/ FeedChange
    \/ \E p \in Procs : OverlapStart(p)
    \/ \E p \in Procs : CheckNewEpisode(p)
    \/ \E p \in Procs : LoadAndCompare(p)
    \/ \E p \in Procs : SaveMarker(p)
    \/ \E p \in Procs : NoEpisodeLink(p)
    \/ \E p \in Procs : ResolveVideo(p)
    \/ \E p \in Procs : FetchTranscript(p)
    \/ \E p \in Procs : Summarize(p)
    \/ \E p \in Procs : PostToTelegram(p)
    \/ \E p \in Procs : SendPart(p)
    \/ \E p \in Procs : Return(p)

SpecOverlap == Init /\ [][NextOverlap]_vars

SplitInit ==
    /\ MainIdle
    /\ CleanIdle
    /\ ResolveIdle
    /\ split_input \in SplitInputs
    /\ max_length \in 1..MaxMaxLength
    /\ message = split_input
    /\ parts = <<>>
    /\ split_pc = "loop"

SplitNext == SplitStep \/ SplitReturn

SpecSplit == SplitInit /\ [][SplitNext]_vars

\* the interpreter keeps executing the loop: a step that stays possible is
\* taken
SpecSplitFair == SplitInit /\ [][SplitNext]_vars /\ WF_vars(SplitNext)

CleanInit ==
    /\ MainIdle
    /\ SplitIdle
    /\ ResolveIdle
    /\ clean_input \in CleanInputs
    /\ clean_once = <<>>
    /\ clean_twice = <<>>
    /\ clean_pc = "start"

CleanNext == CleanFirst \/ CleanSecond

SpecClean == CleanInit /\ [][CleanNext]_vars

ResolveInit ==
    /\ MainIdle
    /\ SplitIdle
    /\ CleanIdle
    /\ resolve_page \in ResolvePages
    /\ page_tags = resolve_page
    /\ found_url = None
    /\ video_id_result = None
    /\ resolve_pc = "scan"

ResolveNext == ResolveScanTag \/ ResolveReturn

SpecResolve == ResolveInit /\ [][ResolveNext]_vars

(***************************************************************************)
(* Properties of main: runs one after another (Spec).                      *)
(***************************************************************************)
RunIds == 1..MaxRuns
Started(n) == n <= runs /\ hist[n].result # "none"
Ended(n) == Started(n) /\ hist[n].result \in {"ok", "error"}
Polled(n) == Started(n) /\ hist[n].detected # "pending"
HasEntry(n) == hist[n].entry # <<>>
Notified(n) == hist[n].sent # <<>>
RanDownstream(n) ==
    \E i \in 1..Len(hist[n].stages) : hist[n].stages[i] \in Downstream
IsPrefix(s, t) == Len(s) <= Len(t) /\ s = SubSeq(t, 1, Len(s))
FullOrder == <<"save", "resolve", "transcript", "summarize", "deliver">>

\* runs n and n + 1 are both over and polled the same latest entry
SameFeedTwice(n) ==
    /\ n + 1 <= MaxRuns
    /\ Ended(n) /\ Ended(n + 1)
    /\ HasEntry(n)
    /\ hist[n].entry = hist[n + 1].entry

\* C1: with an unchanged latest entry and every service succeeding, two
\* consecutive runs notify at most once, and the second run sends nothing.
C1_Idempotent ==
    \A n \in RunIds :
        (SameFeedTwice(n) /\ hist[n].faults = {} /\ hist[n + 1].faults = {})
        => /\ ~(Notified(n) /\ Notified(n + 1))
           /\ hist[n + 1].sent = <<>>

\* C2: a run whose latest identity equals the stored marker sends no chunk
\* and does not write the marker file.
C2_RepeatPollSilent ==
    \A n \in RunIds :
        (Polled(n) /\ HasEntry(n) /\ hist[n].detected = "same")
        => /\ hist[n].sent = <<>>
           /\ hist[n].writes = 0
           /\ (n = runs => markerFile = hist[n].marker0)

\* C3: a run that finds a latest identity other than the marker, with every
\* service succeeding, goes through save, resolve, transcript, summarize and
\* deliver once each, in that order, and leaves the marker equal to the
\* latest identity.
C3_NewEpisodeOnce ==
    \A n \in RunIds :
        (Polled(n) /\ HasEntry(n) /\ hist[n].detected = "new")
        => /\ IsPrefix(hist[n].stages, FullOrder)
           /\ (Ended(n) /\ hist[n].faults = {})
              => /\ hist[n].result = "ok"
                 /\ hist[n].stages = FullOrder
                 /\ hist[n].writes = 1
                 /\ hist[n].sent # <<>>
                 /\ (n = runs => markerFile = File(hist[n].latest.val))

C3_Witness ==
    \E n \in RunIds :
        /\ Ended(n) /\ HasEntry(n) /\ hist[n].detected = "new"
        /\ hist[n].faults = {} /\ hist[n].result = "ok"
        /\ hist[n].marker0.tag = "file"
        /\ n = runs /\ markerFile = File(hist[n].latest.val)

\* a run finds a genuinely new episode when the feed has a latest entry
\* whose identity is not the one load_last_episode_id returns
GenuinelyNew(n) ==
    HasEntry(n) /\ hist[n].latest # load_last_episode_id(hist[n].marker0)

\* C4: a run writes the marker exactly once when it finds a genuinely new
\* episode, and otherwise neither writes nor alters it (the file system
\* working).
C4_MarkerWrites ==
    \A n \in RunIds :
        (Ended(n) /\ Polled(n) /\ "save" \notin hist[n].faults)
        => IF GenuinelyNew(n)
           THEN hist[n].writes = 1
           ELSE /\ hist[n].writes = 0
                /\ (n = runs => markerFile = hist[n].marker0)

\* C5: in a run that detects a new episode, the marker holds the new
\* identity from before the page fetch until the run is over, and the save
\* is the first stage of the run.
C5_SaveBeforeProceed ==
    /\ \A p \in Procs :
          (pc[p] \in {"page", "transcript", "summarize", "post", "send"}
             /\ hist[run[p]].detected = "new")
          => /\ latest_id[p].tag = "str"
             /\ markerFile = File(latest_id[p].val)
             /\ hist[run[p]].writes = 1
    /\ \A n \in RunIds :
          (Started(n) /\ hist[n].detected = "new" /\ RanDownstream(n))
          => Head(hist[n].stages) = "save"

C5_Witness ==
    \E p \in Procs :
        /\ pc[p] = "send" /\ part_index[p] >= 1
        /\ hist[run[p]].detected = "new"
        /\ hist[run[p]].marker0.tag = "file"
        /\ hist[run[p]].marker0 # markerFile

\* C6: a run that finds the feed empty ends without an error, sends
\* nothing and leaves the marker file as it was.
C6_EmptyFeedQuiet ==
    \A n \in RunIds :
        (Ended(n) /\ Polled(n) /\ ~HasEntry(n))
        => /\ hist[n].result = "ok"
           /\ hist[n].sent = <<>>
           /\ (n = runs => markerFile = hist[n].marker0)

\* C9: a message is sent only in a run where resolve, transcript and
\* summarize came first and all succeeded; a run that finds no video or
\* whose summarization fails ends with an error and sends nothing.
C9_NoSummaryNoMessage ==
    \A n \in RunIds :
        Started(n)
        => /\ Notified(n)
              => /\ \E i \in 1..Len(hist[n].stages) :
                       /\ i >= 4
                       /\ SubSeq(hist[n].stages, i - 3, i) =
                             <<"resolve", "transcript", "summarize", "deliver">>
                 /\ hist[n].faults \cap
                       {"page", "novideo", "transcript", "summarize"} = {}
           /\ (hist[n].faults \cap {"novideo", "summarize"} # {})
              => hist[n].result = "error" /\ hist[n].sent = <<>>

C9_Witness ==
    \E n, m \in RunIds :
        /\ Ended(n) /\ "novideo" \in hist[n].faults
        /\ Ended(m) /\ Notified(m) /\ hist[m].result = "ok"

\* C10: a failed transcript fetch ends the run with an error, nothing sent
\* and the marker saved; the next run on the unchanged feed runs no
\* downstream stage and sends nothing.
C10_TranscriptNotRetried ==
    \A n \in RunIds :
        (Ended(n) /\ hist[n].detected = "new" /\ "transcript" \in hist[n].faults)
        => /\ hist[n].result = "error"
           /\ hist[n].sent = <<>>
           /\ (n = runs => markerFile = File(hist[n].latest.val))
           /\ (n + 1 <= MaxRuns /\ Polled(n + 1)
                 /\ hist[n + 1].entry = hist[n].entry)
              => /\ ~RanDownstream(n + 1)
                 /\ hist[n + 1].sent = <<>>

(***************************************************************************)
(* Properties of split_message (SpecSplit).                                *)
(***************************************************************************)
AllWhitespace(s) == \A i \in 1..Len(s) : s[i] \in Whitespace

\* C7: every chunk of split_message, the final one included, is at most
\* max_length characters long.
C7_ChunkBound ==
    /\ \A i \in 1..Len(parts) : Len(parts[i]) <= max_length
    /\ split_pc = "done" => parts = split_message(split_input, max_length)

C7_Witness ==
    /\ split_pc = "done"
    /\ Len(parts) >= 3
    /\ \E i \in 1..Len(parts) : Len(parts[i]) = max_length
    /\ Len(parts[Len(parts)]) = max_length

\* s is the chunks cs in order with at most one whitespace character, and
\* nothing else, left out between two chunks
RECURSIVE SingleGaps(_, _)
SingleGaps(s, cs) ==
    IF Len(cs) = 1 THEN s = cs[1]
    ELSE /\ StartsWith(s, Head(cs))
         /\ LET rest == SliceFrom(s, Len(Head(cs)))
            IN  \/ SingleGaps(rest, Tail(cs))
                \/ /\ rest # <<>>
                   /\ Head(rest) \in Whitespace
                   /\ SingleGaps(Tail(rest), Tail(cs))

\* s is the chunks cs in order with only runs of whitespace left out, before,
\* between and after the chunks
RECURSIVE WhitespaceGaps(_, _)
WhitespaceGaps(s, cs) ==
    IF cs = <<>> THEN AllWhitespace(s)
    ELSE \E k \in 0..Len(s) :
            /\ AllWhitespace(SliceTo(s, k))
            /\ StartsWith(SliceFrom(s, k), Head(cs))
            /\ WhitespaceGaps(SliceFrom(s, k + Len(Head(cs))), Tail(cs))

\* C8 as claimed: the chunks in order give back the input except for a
\* single whitespace character at each split boundary.
C8_SingleWhitespace ==
    split_pc = "done" => SingleGaps(split_input, parts)

\* C8 as amended: the chunks in order give back the input except for runs
\* of whitespace, of any length, at the split boundaries and, when the
\* message was split, at the two ends of the input; an input that is not
\* split comes back as it is.
C8_WhitespaceRuns ==
    split_pc = "done"
    => /\ WhitespaceGaps(split_input, parts)
       /\ Len(parts) = 1 => parts[1] = split_input
       /\ Len(parts) > 1 => \A i \in 1..Len(parts) : parts[i] = Strip(parts[i])

C8_Witness ==
    /\ split_pc = "done"
    /\ Len(parts) >= 2
    /\ Len(split_input) - Len(Concat(parts)) >= 2
    /\ ~AllWhitespace(parts[1])
    /\ ~AllWhitespace(parts[Len(parts)])

Trimmed(s) ==
    s = <<>> \/ (Head(s) \notin Whitespace /\ s[Len(s)] \notin Whitespace)

\* the 0-based indices of the newlines among the first n characters of s
NewlinesWithin(s, n) == {i \in 0..(n - 1) : i < Len(s) /\ s[i + 1] = NL}

\* the cut the rule prescribes: the last newline among the first n
\* characters, and n when there is none
RuleCut(s, n) ==
    IF NewlinesWithin(s, n) = {} THEN n
    ELSE CHOOSE i \in NewlinesWithin(s, n) : \A j \in NewlinesWithin(s, n) : j <= i

\* a body of 9000 characters with a newline as every 500th character
ExampleBody == [i \in 1..9000 |-> IF i % 500 = 0 THEN NL ELSE "a"]
ExampleParts == split_message(ExampleBody, 4096)

C19_Terminates ==
    /\ [][(split_pc = "loop" /\ Len(message) > max_length)
            => Len(message') < Len(message)]_vars
    /\ <>(split_pc = "done")

C19_Witness ==
    /\ split_pc = "done"
    /\ Len(split_input) > max_length
    /\ NewlinesWithin(split_input, max_length) = {0}
    /\ parts[1] = <<>>
    /\ Len(parts) >= 3
    /\ \E i \in 2..Len(parts) : Len(parts[i]) = max_length

\* C20: for a message that begins and ends with a non-whitespace character,
\* the message the loop continues with begins and ends with one too, and no
\* chunk, the final one included, is empty.
C20_NoEmptyChunk ==
    (split_pc # "off" /\ split_input # <<>> /\ Trimmed(split_input))
    => /\ split_pc = "loop" => (message # <<>> /\ Trimmed(message))
       /\ \A i \in 1..Len(parts) : parts[i] # <<>>

C20_Witness ==
    /\ split_pc = "done"
    /\ split_input # <<>> /\ Trimmed(split_input)
    /\ Len(parts) >= 3
    /\ \E i \in 1..Len(split_input) : split_input[i] \in Whitespace

(***************************************************************************)
(* Further properties of main (Spec).                                      *)
(***************************************************************************)
\* C11: when saving the marker fails, the run ends with an error, runs no
\* downstream stage and sends nothing.
C11_SaveFailureBlocks ==
    \A n \in RunIds :
        (Started(n) /\ "save" \in hist[n].faults)
        => /\ hist[n].result = "error"
           /\ ~RanDownstream(n)
           /\ hist[n].sent = <<>>
           /\ \A p \in Procs : run[p] = n => pc[p] = "error"

C11_Witness ==
    \E n \in RunIds :
        /\ Ended(n) /\ HasEntry(n) /\ hist[n].detected = "new"
        /\ "save" \in hist[n].faults
        /\ hist[n].marker0.tag = "file"

\* the process that executes run n, once the run has reached the send loop
Delivering(p, n) ==
    /\ run[p] = n
    /\ Started(n)
    /\ "deliver" \in {hist[n].stages[i] : i \in 1..Len(hist[n].stages)}

\* C12: the chunks are sent one at a time in split order; when the send of
\* chunk k fails, chunks 1..k-1 stay delivered, chunks k.. are not sent and
\* the run ends with an error.
C12_SequentialDelivery ==
    \A n \in RunIds : \A p \in Procs :
        Delivering(p, n)
        => /\ part_index[p] <= Len(message_parts[p])
           /\ hist[n].sent = SubSeq(message_parts[p], 1, part_index[p])
           /\ "send" \in hist[n].faults
              => /\ pc[p] = "error"
                 /\ hist[n].result = "error"
                 /\ Len(hist[n].sent) < Len(message_parts[p])
           /\ hist[n].result = "ok" => hist[n].sent = message_parts[p]

C12_Witness ==
    \E n \in RunIds : \E p \in Procs :
        /\ Delivering(p, n)
        /\ "send" \in hist[n].faults
        /\ Len(hist[n].sent) >= 1
        /\ Len(message_parts[p]) >= Len(hist[n].sent) + 2

\* C13: with no marker stored and at least one entry in the feed, the
\* latest entry counts as new; the run saves its identity and, every
\* service succeeding, notifies for it.
C13_FirstRunNotifies ==
    \A n \in RunIds :
        (Polled(n) /\ HasEntry(n) /\ hist[n].marker0 = NoFile)
        => /\ hist[n].detected = "new"
           /\ (Ended(n) /\ hist[n].faults = {})
              => /\ hist[n].writes = 1
                 /\ hist[n].result = "ok"
                 /\ hist[n].sent # <<>>
                 /\ (n = runs => markerFile = File(hist[n].latest.val))

C13_Witness ==
    \E n \in RunIds :
        /\ Ended(n) /\ HasEntry(n) /\ hist[n].marker0 = NoFile
        /\ hist[n].faults = {} /\ hist[n].sent # <<>>
        /\ n = runs /\ markerFile = File(hist[n].latest.val)

\* the identity of a feed entry: the native video id when the entry has
\* one, the generic id otherwise
IdentityOf(e) == IF e.yt_videoid.tag = "str" THEN e.yt_videoid ELSE e.id

\* C14: the identity polled is that of the first feed entry, native video
\* id before generic id; polling the same entry again gives the same
\* identity, which compares equal to the marker a run before has saved.
C14_IdentityResolution ==
    /\ \A p \in Procs :
          pc[p] \in {"load", "save", "page"}
          => /\ episode[p] = (IF feed = <<>> THEN <<>> ELSE <<feed[1]>>)
             /\ episode[p] # <<>> => latest_id[p] = IdentityOf(feed[1])
    /\ \A n \in RunIds :
          (Polled(n) /\ HasEntry(n))
          => /\ hist[n].latest = IdentityOf(hist[n].entry[1])
             /\ (n + 1 <= MaxRuns /\ Polled(n + 1)
                   /\ hist[n + 1].entry = hist[n].entry)
                => /\ hist[n + 1].latest = hist[n].latest
                   /\ (hist[n].detected = "new" /\ "save" \notin hist[n].faults)
                      => hist[n + 1].detected = "same"

C14_Witness ==
    \E n \in RunIds :
        /\ n + 1 <= MaxRuns /\ Polled(n) /\ Polled(n + 1)
        /\ HasEntry(n) /\ hist[n + 1].entry = hist[n].entry
        /\ hist[n].entry[1].yt_videoid.tag = "absent"
        /\ hist[n].detected = "new" /\ hist[n + 1].detected = "same"
        /\ Len(feed) = 2

\* runs n and m both took the same latest identity for new and both
\* delivered a notification for it
Duplicate(n, m) ==
    /\ n # m /\ Started(n) /\ Started(m)
    /\ hist[n].detected = "new" /\ hist[m].detected = "new"
    /\ hist[n].latest.tag = "str" /\ hist[n].latest = hist[m].latest
    /\ Notified(n) /\ Notified(m)

\* C18: two runs that both detect the same episode as new and both notify
\* for it have overlapped: with one run active at a time there is no such
\* pair of runs.
C18_DuplicateOnlyByOverlap ==
    \A n \in RunIds : \A m \in RunIds :
        Duplicate(n, m) => (hist[n].overlapped /\ hist[m].overlapped)

\* both runs loaded the old marker before either saved, and both delivered
\* every chunk
C18_Witness ==
    \E n \in RunIds : \E m \in RunIds :
        /\ Duplicate(n, m)
        /\ hist[n].overlapped /\ hist[m].overlapped
        /\ hist[n].marker0 = hist[m].marker0
        /\ hist[n].writes = 1 /\ hist[m].writes = 1
        /\ hist[n].result = "ok" /\ hist[m].result = "ok"
        /\ markerFile = File(hist[n].latest.val)

(***************************************************************************)
(* Properties of clean_summary (SpecClean).                                *)
(***************************************************************************)
HasFence(s) == \E i \in 1..(Len(s) - 2) : SubSeq(s, i, i + 2) = Fence

\* C15: clean_summary applied to its own result changes nothing, and its
\* result holds no fence of three backticks and no whitespace at either end.
C15_CleanIdempotent ==
    /\ clean_pc \in {"once", "twice"}
       => ~HasFence(clean_once) /\ Trimmed(clean_once)
    /\ clean_pc = "twice" => clean_twice = clean_once

C15_Witness ==
    /\ clean_pc = "twice"
    /\ \E i \in 1..Len(clean_input) :
          StartsWith(SliceFrom(clean_input, i - 1), FenceMarkdown)
    /\ clean_once # <<>>
    /\ Len(clean_input) - Len(clean_once) > Len(FenceMarkdown)

(***************************************************************************)
(* Properties of extract_youtube_video_id_from_url (SpecResolve).          *)
(***************************************************************************)
\* the objects of the page in document order: the items of the tags that
\* parse, tag after tag
RECURSIVE Objects(_)
Objects(tags) ==
    IF tags = <<>> THEN <<>>
    ELSE (IF Head(tags).tag = "json" THEN Head(tags).items ELSE <<>>)
         \o Objects(Tail(tags))

IsMatch(item) == item.type = "VideoObject" /\ item.embedUrl.tag = "str"

Least(S) == CHOOSE i \in S : \A j \in S : i <= j

OnlyObjects(tags) ==
    \A i \in 1..Len(tags) : \A k \in 1..Len(tags[i].items) :
        tags[i].items[k].type # "NotDict"

\* C16: on a page whose tags hold only objects, the result is the id taken
\* from the embed reference of the first object, in document order, that is
\* typed as a video and has an embed reference; tags that do not parse are
\* skipped; there is no id when no object matches.
C16_FirstMatchWins ==
    (resolve_pc = "done" /\ OnlyObjects(resolve_page))
    => LET objs == Objects(resolve_page)
           hits == {i \in 1..Len(objs) : IsMatch(objs[i])}
       IN  IF hits = {} THEN video_id_result = None
           ELSE video_id_result = EmbedMatch(objs[Least(hits)].embedUrl.val)

\* what a tag offers: the embed reference of its first matching item, when
\* the tag parses and no item before that one is a non-object
Offer(tag) ==
    IF tag.tag # "json" THEN None
    ELSE LET stops == {i \in 1..Len(tag.items) :
                          tag.items[i].type = "NotDict" \/ IsMatch(tag.items[i])}
         IN  IF stops = {} THEN None
             ELSE IF tag.items[Least(stops)].type = "NotDict" THEN None
             ELSE tag.items[Least(stops)].embedUrl

\* What the scan returns: each tag offers the embed reference of its first
\* matching object (nothing when it does not parse or a non-object comes
\* first); the first non-empty offer in tag order decides: the result is the
\* id in it, or no id when it has no /embed/ segment followed by an id; there
\* is no id when no tag makes a non-empty offer.
FirstOfferWins ==
    resolve_pc = "done"
    => LET offers == {i \in 1..Len(resolve_page) : Truthy(Offer(resolve_page[i]))}
       IN  /\ IF offers = {} THEN video_id_result = None
              ELSE video_id_result =
                      EmbedMatch(Offer(resolve_page[Least(offers)]).val)
           /\ video_id_result = ExtractVideoId(resolve_page)
           /\ video_id_result.tag = "str"
              => /\ Len(video_id_result.val) = VideoIdLen
                 /\ \A k \in 1..VideoIdLen : video_id_result.val[k] \in IdChars

====
